---- MODULE Spec2Model ----
(***************************************************************************)
(* Benchmark-entry extraction and dispatch pipeline of the gYCSB plugin:   *)
(* the name resolver (generateRunningName), the entry collector            *)
(* (getBenchmarkEntries / getRunnableBenchmarks), the dispatch             *)
(* orchestrator (sendBenchmarkRequest / runBenchmarks) and the commands    *)
(* and run buttons that start them.                                        *)
(*                                                                         *)
(* Text is a sequence of one-character strings, so that the regular        *)
(* expressions of the code are computed character by character.            *)
(***************************************************************************)
EXTENDS Integers, Sequences, FiniteSets, TLC

\* ------------------------------------------------------------------------
\* Bounds of the model
\* ------------------------------------------------------------------------
\* longest template, counted in chunks of TemplateChunks
MaxChunks == 3
\* number of user triggers (commands, button clicks), each an async task
MaxTasks == 2
\* longest entry list handed to one direct call of runBenchmarks
MaxEntries == 3
\* longest document, counted in chunks of DocChunks
MaxDocChunks == 3
\* number of edits made in the settings tab
MaxEdits == 2

\* ------------------------------------------------------------------------
\* Text helpers
\* ------------------------------------------------------------------------
SetMax(S) == CHOOSE x \in S : \A y \in S : y <= x
SetMin(S) == CHOOSE x \in S : \A y \in S : x <= y

RECURSIVE Concat(_)
Concat(ss) == IF ss = <<>> THEN <<>> ELSE Head(ss) \o Concat(Tail(ss))

\* the letters of the model that have an upper case form (flag i of a RegExp)
ToLowerChar(c) ==
    CASE c = "F" -> "f" [] c = "I" -> "i" [] c = "L" -> "l" [] c = "E" -> "e"
      [] c = "N" -> "n" [] c = "A" -> "a" [] c = "M" -> "m" [] OTHER -> c

ToLower(s) == [i \in 1..Len(s) |-> ToLowerChar(s[i])]

\* ------------------------------------------------------------------------
\* Property values (frontmatter values are `unknown` in the code): a value
\* is its JavaScript type and its String(value) text
\* ------------------------------------------------------------------------
StrVal(s)  == [t |-> "string", s |-> s]
BoolTrue   == [t |-> "boolean", s |-> <<"t","r","u","e">>]
BoolFalse  == [t |-> "boolean", s |-> <<"f","a","l","s","e">>]
NumOne     == [t |-> "number", s |-> <<"1">>]
Null       == [t |-> "null", s |-> <<"n","u","l","l">>]
Undefined  == [t |-> "undefined", s |-> <<"u","n","d","e","f","i","n","e","d">>]

\* String(value)
StringOf(v) == v.s

\* String(Object.prototype.valueOf)
NativeValueOfText ==
    <<"f","u","n","c","t","i","o","n"," ","v","a","l","u","e","O","f","(",")"," ">>
    \o <<"{"," ","[","n","a","t","i","v","e"," ","c","o","d","e","]"," ","}">>

\* the properties object is an object literal ({} in getAllProperties): a
\* name it does not own is looked up in Object.prototype, of which the model
\* keeps the member valueOf
ObjectPrototype ==
    (<<"v","a","l","u","e","O","f">> :> [t |-> "function", s |-> NativeValueOfText])

\* entry.properties[propertyName]
PropertyLookup(properties, name) ==
    IF name \in DOMAIN properties THEN properties[name]
    ELSE IF name \in DOMAIN ObjectPrototype THEN ObjectPrototype[name]
    ELSE Undefined

\* ------------------------------------------------------------------------
\* generateRunningName (api.ts)
\* ------------------------------------------------------------------------
\* entry.filePath.split(/) ; pathParts[pathParts.length - 1] || empty
LastPathPart(path) ==
    LET seps == {i \in 1..Len(path) : path[i] = "/"}
    IN  IF seps = {} THEN path ELSE SubSeq(path, SetMax(seps) + 1, Len(path))

\* fullFileName.replace(/\.[^/.]+$/, empty): the leftmost dot that is followed,
\* up to the end, by one or more characters other than '/' and '.'
RemoveExtension(name) ==
    LET dots == {i \in 1..Len(name) :
                    /\ name[i] = "."
                    /\ i < Len(name)
                    /\ \A j \in (i+1)..Len(name) : name[j] \notin {"/", "."}}
    IN  IF dots = {} THEN name ELSE SubSeq(name, 1, SetMin(dots) - 1)

DeriveFileName(path) == RemoveExtension(LastPathPart(path))

FilenamePlaceholder == <<"{","f","i","l","e","n","a","m","e","}">>

\* the replacement *string* of String.prototype.replace: $$, $&, $ with a
\* backquote and $ with a quote are patterns (the RegExp has no group, so
\* $1.. and $<..> stay literal); the two quote characters are written
\* "BQ" and "SQ"
RECURSIVE ExpandReplacement(_, _, _, _)
ExpandReplacement(r, match, before, after) ==
    IF r = <<>> THEN <<>>
    ELSE IF Len(r) >= 2 /\ r[1] = "$" /\ r[2] \in {"$", "&", "BQ", "SQ"}
    THEN (CASE r[2] = "$" -> <<"$">>
            [] r[2] = "&" -> match
            [] r[2] = "BQ" -> before
            [] OTHER -> after)
         \o ExpandReplacement(SubSeq(r, 3, Len(r)), match, before, after)
    ELSE <<r[1]>> \o ExpandReplacement(Tail(r), match, before, after)

\* template.replace(/\{filename\}/gi, fileName), scanning from position i
RECURSIVE ReplaceFilenameFrom(_, _, _)
ReplaceFilenameFrom(template, i, fileName) ==
    IF i > Len(template) THEN <<>>
    ELSE IF /\ i + 9 <= Len(template)
            /\ ToLower(SubSeq(template, i, i + 9)) = FilenamePlaceholder
    THEN ExpandReplacement(fileName,
                           SubSeq(template, i, i + 9),
                           SubSeq(template, 1, i - 1),
                           SubSeq(template, i + 10, Len(template)))
         \o ReplaceFilenameFrom(template, i + 10, fileName)
    ELSE <<template[i]>> \o ReplaceFilenameFrom(template, i + 1, fileName)

ReplaceFilename(template, fileName) == ReplaceFilenameFrom(template, 1, fileName)

\* the callback of the second replace: the text of the property, or the empty text
PropertyText(properties, propertyName) ==
    LET value == PropertyLookup(properties, propertyName)
    IN  IF value # Undefined /\ value # Null THEN StringOf(value) ELSE <<>>

\* result.replace(/\{([^}]+)\}/g, callback), scanning from position i: a
\* match starts at a '{' whose next '}' is at least two characters further
RECURSIVE ReplacePropertiesFrom(_, _, _)
ReplacePropertiesFrom(text, i, properties) ==
    IF i > Len(text) THEN <<>>
    ELSE LET closes == {j \in (i+1)..Len(text) : text[j] = "}"}
             j == IF closes = {} THEN 0 ELSE SetMin(closes)
         IN  IF text[i] = "{" /\ j >= i + 2
             THEN PropertyText(properties, SubSeq(text, i + 1, j - 1))
                  \o ReplacePropertiesFrom(text, j + 1, properties)
             ELSE <<text[i]>> \o ReplacePropertiesFrom(text, i + 1, properties)

ReplaceProperties(text, properties) == ReplacePropertiesFrom(text, 1, properties)

GenerateRunningName(template, entry) ==
    LET fileName == DeriveFileName(entry.filePath)
        result == ReplaceFilename(template, fileName)
    IN  ReplaceProperties(result, entry.properties)

\* ------------------------------------------------------------------------
\* Settings (settings.ts, types.ts)
\* ------------------------------------------------------------------------
IsRunName == <<"i","s","_","r","u","n">>
VariablesName == <<"[",">","]"," ","v","a","r","i","a","b","l","e","s">>
OperationName == <<"O","p","e","r","a","t","i","o","n">>
DefaultTemplate == <<"{">> \o OperationName \o <<"}","_">> \o FilenamePlaceholder

DEFAULT_SETTINGS ==
    [apiUrl |-> "http://localhost:5000/api/ycsb",
     enabledBasePaths |-> <<>>,
     runPropertyName |-> IsRunName,
     variablesPropertyName |-> VariablesName,
     runningNameTemplate |-> DefaultTemplate]

\* ------------------------------------------------------------------------
\* The vault and the workspace of the host
\* ------------------------------------------------------------------------
Bases == {"A.base", "B.base"}

NoteA1 == <<"d","/","a","1",".","m","d">>
NoteA2 == <<"d","/","a","2",".","m","d">>
NoteB1 == <<"d","/","b","1",".","m","d">>
Files == {NoteA1, NoteA2, NoteB1}
\* a record of a result set without an underlying document (entry.file unset)
NoFile == <<>>

\* app.vault.read(file): a note with frontmatter, prose and a tagged block;
\* a note whose whole body is the workload; a note with frontmatter only
VaultContent(file) ==
    IF file = NoteA1
    THEN <<"-","-","-","LF","k",":","1","LF","-","-","-","LF","t","x","t","LF">>
         \o <<"BQ","BQ","BQ","y","a","m","l","_","y","c","s","b","_","r","u","n","LF">>
         \o <<"a",":","LF","TAB","b",":"," ","1","LF","BQ","BQ","BQ","LF">>
    ELSE IF file = NoteA2
    THEN <<"o","p",":"," ","r","LF">>
    ELSE <<"-","-","-","LF","k",":","1","LF","-","-","-","LF">>

\* basesView.data.data of a view of the base file: the records of the base
QueryResult(base) ==
    IF base = "A.base" THEN <<NoteA1, NoFile, NoteA2>> ELSE <<NoteB1>>

RecordsOf(base) == {QueryResult(base)[i] : i \in 1..Len(QueryResult(base))} \ {NoFile}

\* states of a leaf of type "bases": controller.view unset, data.data unset,
\* or a materialized result set
LeafStates == {"noview", "nodata", "loaded"}

VARIABLES
    settings,      \* plugin.settings
    leaves,        \* app.workspace.getLeavesOfType("bases"), in order
    activeFile,    \* app.workspace.getActiveFile(): a path, or "" for none
    metadata,      \* app.metadataCache.getFileCache(file), per file
    tasks,         \* the async call started by each user trigger
    inflight,      \* requestUrl calls that have not settled yet
    nameTemplate,  \* input of a direct call of generateRunningName
    nameEntry,     \* input of a direct call of generateRunningName
    nameResult,    \* its return value
    namePc,        \* "call" before the call, "done" after it
    content,       \* input of a direct call of extractYamlFromBody
    yamlContent,   \* its return value
    bodyPc,        \* "call" before the call, "done" after it
    propName,      \* propertyName of a direct call of getPropertyValue
    propValue,     \* its return value
    allProperties, \* return value of a direct call of getAllProperties
    propPc,        \* "call", "got" after getPropertyValue, "done" after both
    persisted,     \* data.json: what loadData() returns (no file: no field)
    loadPc,        \* "call" before loadSettings, "done" after it
    arrayId,       \* identity of the array settings.enabledBasePaths refers to
    displayed,     \* the settings tab: the enabledPaths array and the rows of
                   \* the last display()
    saving,        \* handlers suspended at await saveSettings()
    edits,         \* number of edits made in the settings tab
    updated,       \* leaves the last step ran updateRunButtonOnLeaf on
    lastOp         \* per base file, the last click on it: "add", "remove" or "none"

mainVars == <<settings, leaves, activeFile, metadata, tasks, inflight>>
nameVars == <<nameTemplate, nameEntry, nameResult, namePc>>
bodyVars == <<content, yamlContent, bodyPc>>
propVars == <<propName, propValue, allProperties, propPc>>
storeVars == <<persisted, loadPc>>
uiVars == <<arrayId, displayed, saving, edits, updated, lastOp>>
callVars == <<bodyVars, propVars, storeVars, uiVars>>
vars == <<settings, leaves, activeFile, metadata, tasks, inflight,
          nameTemplate, nameEntry, nameResult, namePc,
          content, yamlContent, bodyPc,
          propName, propValue, allProperties, propPc,
          persisted, loadPc,
          arrayId, displayed, saving, edits, updated, lastOp>>

Tasks == 1..MaxTasks

\* ------------------------------------------------------------------------
\* Body parser (base-handler.ts); "LF" is the line feed, "TAB" the tab and
\* "BQ" the backquote
\* ------------------------------------------------------------------------
StartsWithAt(text, i, pat) ==
    /\ i >= 1
    /\ i + Len(pat) - 1 <= Len(text)
    /\ SubSeq(text, i, i + Len(pat) - 1) = pat

Whitespace == {" ", "TAB", "LF", "CR"}

\* String.prototype.trim
Trim(text) ==
    LET solid == {i \in 1..Len(text) : text[i] \notin Whitespace}
    IN  IF solid = {} THEN <<>> ELSE SubSeq(text, SetMin(solid), SetMax(solid))

\* text.replace(/\t/g, two spaces)
RECURSIVE TabsToSpaces(_)
TabsToSpaces(text) ==
    IF text = <<>> THEN <<>>
    ELSE (IF Head(text) = "TAB" THEN <<" ", " ">> ELSE <<Head(text)>>)
         \o TabsToSpaces(Tail(text))

FrontmatterOpen == <<"-","-","-","LF">>
FrontmatterClose == <<"LF","-","-","-","LF">>
FenceOpen == <<"BQ","BQ","BQ","y","a","m","l","_","y","c","s","b","_","r","u","n","LF">>
FenceClose == <<"BQ","BQ","BQ">>

\* content.match(/^---\n[\s\S]*?\n---\n/) and the slice after the match
StripFrontmatter(text) ==
    LET ends == {p \in 5..Len(text) : StartsWithAt(text, p, FrontmatterClose)}
    IN  IF StartsWithAt(text, 1, FrontmatterOpen) /\ ends # {}
        THEN SubSeq(text, SetMin(ends) + Len(FrontmatterClose), Len(text))
        ELSE text

\* extractYamlFromBody from the search of the code block on: the first
\* match of the tagged fence up to the next three backquotes, or else the
\* whole body, trimmed, with the tabs replaced
YamlOfBody(bodyContent) ==
    LET closes(q) == {r \in (q + Len(FenceOpen))..Len(bodyContent) :
                        StartsWithAt(bodyContent, r, FenceClose)}
        opens == {q \in 1..Len(bodyContent) :
                    StartsWithAt(bodyContent, q, FenceOpen) /\ closes(q) # {}}
        found ==
            IF opens # {}
            THEN LET q == SetMin(opens)
                 IN  Trim(SubSeq(bodyContent, q + Len(FenceOpen), SetMin(closes(q)) - 1))
            ELSE Trim(bodyContent)
    IN  TabsToSpaces(found)

\* extractYamlFromBody(content)
ExtractYamlFromBody(text) == YamlOfBody(StripFrontmatter(text))

\* ------------------------------------------------------------------------
\* Property accessor (base-handler.ts)
\* ------------------------------------------------------------------------
NoFrontmatter == [has |-> FALSE, frontmatter |-> [k \in {} |-> Null]]
Cache(frontmatter) == [has |-> TRUE, frontmatter |-> frontmatter]

\* getPropertyValue(app, file, propertyName)
GetPropertyValue(md, file, propertyName) ==
    IF md[file].has THEN PropertyLookup(md[file].frontmatter, propertyName) ELSE Null

\* value.replace(/^\[\[(.+?)\]\]$/, "$1"); "LF" is the line feed, which the
\* dot of a RegExp does not match
UnwrapLink(s) ==
    IF /\ Len(s) >= 5
       /\ s[1] = "[" /\ s[2] = "["
       /\ s[Len(s) - 1] = "]" /\ s[Len(s)] = "]"
       /\ \A i \in 3..(Len(s) - 2) : s[i] # "LF"
    THEN SubSeq(s, 3, Len(s) - 2)
    ELSE s

\* getAllProperties(app, file)
GetAllProperties(md, file) ==
    IF md[file].has
    THEN [k \in DOMAIN md[file].frontmatter |->
            LET value == md[file].frontmatter[k]
            IN  IF value.t = "string" THEN StrVal(UnwrapLink(value.s)) ELSE value]
    ELSE [k \in {} |-> Null]

\* ------------------------------------------------------------------------
\* Entry collector (base-handler.ts)
\* ------------------------------------------------------------------------
\* a value that an `if (value)` would accept
Truthy(value) ==
    /\ value \notin {Null, Undefined, BoolFalse}
    /\ ~(value.t = "string" /\ value.s = <<>>)

IsRunLoose(value) == Truthy(value)
\* getPropertyValue(app, file, runPropertyName) === true
IsRun(value) == value = BoolTrue

\* the view the collector reads: the first leaf of type "bases", whatever
\* base file it shows (baseFilePath is not read); 0 when there is none
PickLeaf(lv, baseFilePath) == IF lv = <<>> THEN 0 ELSE 1

\* the for loop of getBenchmarkEntries runs without suspension up to the
\* next record that has a file and is eligible: its index, or Len + 1
NextEligible(md, queryResult, from, runPropertyName) ==
    LET hits == {k \in from..Len(queryResult) :
                    /\ queryResult[k] # NoFile
                    /\ IsRun(GetPropertyValue(md, queryResult[k], runPropertyName))}
    IN  IF hits = {} THEN Len(queryResult) + 1 ELSE SetMin(hits)

\* ------------------------------------------------------------------------
\* Dispatch orchestrator (api.ts)
\* ------------------------------------------------------------------------
\* what requestUrl can do: resolve with a status, or reject
Statuses == {199, 200, 204, 299, 300, 404, 500}
Responses == [threw : {FALSE}, status : Statuses] \cup {[threw |-> TRUE, status |-> 0]}

IsSuccessStatusInclusive(status) == status >= 200 /\ status <= 300
\* response.status >= 200 && response.status < 300
IsSuccessStatus(status) == status >= 200 /\ status < 300

\* the try/catch of sendBenchmarkRequest: does the catch block take the error
CatchesError(response) == TRUE

\* the return value of sendBenchmarkRequest once requestUrl has settled;
\* raised: the rejection leaves sendBenchmarkRequest
SendBenchmarkResult(response) ==
    IF response.threw
    THEN [raised |-> ~CatchesError(response), success |-> FALSE,
          message |-> "Request failed"]
    ELSE IF IsSuccessStatus(response.status)
    THEN [raised |-> FALSE, success |-> TRUE, message |-> "submitted successfully"]
    ELSE [raised |-> FALSE, success |-> FALSE, message |-> "Server error"]

\* the body of the POST request
RequestBody(entry, runningNameTemplate) ==
    [filePath |-> entry.filePath,
     yamlContent |-> entry.yamlContent,
     variables |-> IF entry.variables = Undefined THEN Null ELSE entry.variables,
     running_name |-> GenerateRunningName(runningNameTemplate, entry)]

NeverEmpty(runnableEntries) == FALSE
\* runnableEntries.length === 0
NothingToRun(runnableEntries) == Len(runnableEntries) = 0

StopAtFailure(runnableEntries, i, result) == i < Len(runnableEntries) /\ result.success
\* for (const entry of runnableEntries): the loop goes on after entry i
\* whatever its result
HasNextEntry(runnableEntries, i, result) == i < Len(runnableEntries)

EntryAtReversed(runnableEntries, i) == runnableEntries[Len(runnableEntries) + 1 - i]
\* the i-th entry the for-of loop visits
EntryAt(runnableEntries, i) == runnableEntries[i]

\* ------------------------------------------------------------------------
\* Async tasks: the locals of one call chain started by a trigger
\* ------------------------------------------------------------------------
IdleTask ==
    [kind |-> "none",            \* runAll, runCurrent, button, direct, collect
     pc |-> "idle",
     paths |-> <<>>,             \* the array the for-of of runAllEnabledBenchmarks walks
     pathsId |-> 0,              \* its identity
     atTrigger |-> <<>>,         \* the settings when the run was triggered
     baseIdx |-> 0,              \* its position
     basePath |-> "",            \* baseFilePath of the collector
     buttonLeaf |-> 0,           \* runButton of the click callback: its leaf and
     buttonPos |-> 0,            \* its place among the buttons; 0 once detached
     runPropertyName |-> <<>>,   \* argument of the collector
     queryResult |-> <<>>,       \* basesView.data.data
     qi |-> 0,                   \* record being read
     checked |-> <<>>,           \* values the eligibility check saw, per eligible record
     entries |-> <<>>,           \* entries pushed so far / returned
     apiUrl |-> "",              \* arguments of runBenchmarks
     runningNameTemplate |-> <<>>,
     runnableEntries |-> <<>>,
     ri |-> 0,                   \* entry whose request is awaited
     successCount |-> 0,
     failCount |-> 0,
     sent |-> <<>>,              \* request bodies issued by this call of runBenchmarks
     responses |-> <<>>,         \* what requestUrl did for each of them
     lastResult |-> [raised |-> FALSE, success |-> FALSE, message |-> ""],
     notices |-> <<>>]           \* Notices of this call of runBenchmarks

\* pcs at which a task is suspended on I/O or not running: only then can the
\* host deliver another event (run to completion)
SuspendedPcs == {"idle", "reading", "awaiting", "done", "crashed"}
Quiescent == \A t \in Tasks : tasks[t].pc \in SuspendedPcs

\* triggers take the task slots in order
FreeSlot(t) ==
    /\ Quiescent
    /\ tasks[t].pc = "idle"
    /\ \A u \in Tasks : u < t => tasks[u].pc # "idle"

Notice(kind, a, b) == [kind |-> kind, a |-> a, b |-> b]

\* ------------------------------------------------------------------------
\* Run buttons (run-button.ts)
\* ------------------------------------------------------------------------
IncludesAnything(array, x) == TRUE
\* array.includes(x)
Includes(array, x) == \E i \in 1..Len(array) : array[i] = x

\* getEnabledBasePath(leaf, enabledBasePaths): "" stands for null
GetEnabledBasePath(leaf, enabledBasePaths) ==
    IF Includes(enabledBasePaths, leaf.file) THEN leaf.file ELSE ""

\* the element createRunButton returns: its click callback holds basePath;
\* isRunning: its class list holds is-running
RunButton(basePath) == [basePath |-> basePath, isRunning |-> FALSE]

AlwaysInsertButton(leaf, enabledBasePaths) ==
    [leaf EXCEPT !.buttons = <<RunButton(leaf.file)>> \o @]
\* updateRunButtonOnLeaf(app, leaf, settings): the leaf afterwards; buttons
\* are the elements of class base-toolbar-gycsb-run-button in the container
\* of the view, in document order
UpdateRunButtonOnLeaf(leaf, enabledBasePaths) ==
    LET existingButton == leaf.buttons # <<>>
        basePath == GetEnabledBasePath(leaf, enabledBasePaths)
    IN  IF basePath = ""
        THEN (IF existingButton THEN [leaf EXCEPT !.buttons = Tail(@)] ELSE leaf)
        ELSE IF existingButton THEN leaf
        ELSE IF ~leaf.toolbar THEN leaf
        ELSE [leaf EXCEPT !.buttons = <<RunButton(basePath)>> \o @]

\* refreshAllRunButtons(app, settings)
RefreshAllRunButtons(lv, enabledBasePaths) ==
    [i \in 1..Len(lv) |-> UpdateRunButtonOnLeaf(lv[i], enabledBasePaths)]

\* the runButton the click callbacks of the running tasks refer to, after
\* the buttons of the leaves have gone from lv to after: a button removed
\* from its container is out of the document for good
Rebind(tk, lv, after) ==
    [t \in DOMAIN tk |->
        IF tk[t].buttonLeaf = 0 THEN tk[t]
        ELSE LET i == tk[t].buttonLeaf
                 shift == Len(after[i].buttons) - Len(lv[i].buttons)
             IN  IF shift < 0 /\ tk[t].buttonPos = 1
                 THEN [tk[t] EXCEPT !.buttonLeaf = 0, !.buttonPos = 0]
                 ELSE [tk[t] EXCEPT !.buttonPos = @ + shift]]

\* runButton.classList.add('is-running')
AddIsRunning(lv, i, b) == [lv EXCEPT ![i].buttons[b].isRunning = TRUE]

\* the finally block of the click callback:
\* runButton.classList.remove('is-running')
RemoveIsRunning(task, lv) ==
    IF task.kind = "button" /\ task.buttonLeaf # 0
    THEN [lv EXCEPT ![task.buttonLeaf].buttons[task.buttonPos].isRunning = FALSE]
    ELSE lv

\* ------------------------------------------------------------------------
\* Triggers (main.ts, run-button.ts)
\* ------------------------------------------------------------------------
\* the arguments main.ts and the button read from the settings when they
\* call getRunnableBenchmarks
StartCollect(task, kind, basePath) ==
    [IdleTask EXCEPT !.kind = kind, !.pc = "collect", !.basePath = basePath,
                     !.paths = task.paths, !.baseIdx = task.baseIdx,
                     !.pathsId = task.pathsId,
                     !.atTrigger = IF task.atTrigger = <<>> THEN settings
                                                            ELSE task.atTrigger,
                     !.runPropertyName = settings.runPropertyName]

\* command "Run all YCSB benchmarks": runAllEnabledBenchmarks
RunAllCommand(t) ==
    /\ FreeSlot(t)
    /\ LET paths == settings.enabledBasePaths
       IN  tasks' = [tasks EXCEPT ![t] =
              IF Len(paths) = 0
              THEN [IdleTask EXCEPT !.kind = "runAll", !.pc = "done"]
              ELSE [StartCollect(@, "runAll", paths[1])
                      EXCEPT !.paths = paths, !.baseIdx = 1, !.pathsId = arrayId,
                             !.atTrigger = settings]]
    /\ UNCHANGED <<settings, leaves, activeFile, metadata, inflight, nameVars, callVars>>

\* getCurrentBasePath(): "" stands for null
GetCurrentBasePath == IF activeFile \in Bases THEN activeFile ELSE ""

\* command "Run YCSB benchmarks for current base": checkCallback, then
\* runCurrentBaseBenchmarks
RunCurrentCommand(t) ==
    /\ FreeSlot(t)
    /\ LET basePath == GetCurrentBasePath
       IN  /\ basePath # ""
           /\ Includes(settings.enabledBasePaths, basePath)
           /\ tasks' = [tasks EXCEPT ![t] = StartCollect(@, "runCurrent", basePath)]
    /\ UNCHANGED <<settings, leaves, activeFile, metadata, inflight, nameVars, callVars>>

\* click on a run button of leaf i: the callback of createRunButton
RunButtonClick(t, i) ==
    /\ FreeSlot(t)
    /\ i \in 1..Len(leaves)
    /\ \E b \in 1..Len(leaves[i].buttons) :
          /\ leaves' = AddIsRunning(leaves, i, b)
          /\ tasks' = [tasks EXCEPT ![t] =
                         [StartCollect(@, "button", leaves[i].buttons[b].basePath)
                            EXCEPT !.buttonLeaf = i, !.buttonPos = b]]
    /\ UNCHANGED <<settings, activeFile, metadata, inflight, nameVars, callVars>>

\* ------------------------------------------------------------------------
\* Collector steps
\* ------------------------------------------------------------------------
\* the loop from record `from` on: suspend at the read of the next eligible
\* record, or return the entries
ScanFrom(task, md, from) ==
    LET k == NextEligible(md, task.queryResult, from, task.runPropertyName)
    IN  IF k > Len(task.queryResult)
        THEN [task EXCEPT !.pc = "collected", !.qi = 0]
        ELSE [task EXCEPT !.pc = "reading", !.qi = k,
                !.checked = Append(@, GetPropertyValue(md, task.queryResult[k],
                                                       task.runPropertyName))]

\* getBenchmarkEntries up to its first suspension
CollectStart(t) ==
    /\ tasks[t].pc = "collect"
    /\ LET at == PickLeaf(leaves, tasks[t].basePath)
       IN  tasks' = [tasks EXCEPT ![t] =
              IF at = 0 \/ leaves[at].state # "loaded"
              THEN [@ EXCEPT !.pc = "collected"]
              ELSE ScanFrom([@ EXCEPT !.queryResult = QueryResult(leaves[at].file)],
                            metadata, 1)]
    /\ UNCHANGED <<settings, leaves, activeFile, metadata, inflight, nameVars, callVars>>

\* app.vault.read(file) resolves: the entry is pushed and the loop goes on
ReadDone(t) ==
    /\ Quiescent
    /\ tasks[t].pc = "reading"
    /\ LET file == tasks[t].queryResult[tasks[t].qi]
           entry == [filePath |-> file,
                     yamlContent |-> ExtractYamlFromBody(VaultContent(file)),
                     isRun |-> TRUE,
                     variables |-> GetPropertyValue(metadata, file, VariablesName),
                     properties |-> GetAllProperties(metadata, file)]
       IN  tasks' = [tasks EXCEPT ![t] =
              ScanFrom([@ EXCEPT !.entries = Append(@, entry)], metadata, tasks[t].qi + 1)]
    /\ UNCHANGED <<settings, leaves, activeFile, metadata, inflight, nameVars, callVars>>

\* ------------------------------------------------------------------------
\* Dispatcher steps
\* ------------------------------------------------------------------------
Request(t, apiUrl, entry, runningNameTemplate) ==
    [task |-> t, url |-> apiUrl, body |-> RequestBody(entry, runningNameTemplate)]

\* getRunnableBenchmarks returns its filtered list; runBenchmarks starts:
\* nothing to run, or the first request
RunBenchmarksStart(t) ==
    /\ tasks[t].pc = "collected"
    /\ LET runnable == SelectSeq(tasks[t].entries, LAMBDA e : e.isRun)
           base == [tasks[t] EXCEPT !.runnableEntries = runnable, !.ri = 0,
                       !.apiUrl = settings.apiUrl,
                       !.runningNameTemplate = settings.runningNameTemplate,
                       !.successCount = 0, !.failCount = 0,
                       !.sent = <<>>, !.responses = <<>>, !.notices = <<>>]
       IN  IF NothingToRun(runnable)
           THEN /\ tasks' = [tasks EXCEPT ![t] =
                      [base EXCEPT !.pc = "returned",
                                   !.notices = <<Notice("none", 0, 0)>>]]
                /\ UNCHANGED inflight
           ELSE IF Len(runnable) = 0
           THEN /\ tasks' = [tasks EXCEPT ![t] =
                      [base EXCEPT !.pc = "summary",
                                   !.notices = <<Notice("running", 0, 0)>>]]
                /\ UNCHANGED inflight
           ELSE LET req == Request(t, base.apiUrl, EntryAt(runnable, 1),
                                   base.runningNameTemplate)
                IN  /\ tasks' = [tasks EXCEPT ![t] =
                          [base EXCEPT !.pc = "awaiting", !.ri = 1,
                                       !.notices = <<Notice("running", Len(runnable), 0)>>,
                                       !.sent = <<req.body>>]]
                    /\ inflight' = inflight \cup {req}
    /\ UNCHANGED <<settings, leaves, activeFile, metadata, nameVars, callVars>>

\* requestUrl settles: sendBenchmarkRequest returns, the result is counted
\* and the loop issues the next request or ends
RequestOutcome(t, response) ==
    /\ Quiescent
    /\ tasks[t].pc = "awaiting"
    /\ LET task == tasks[t]
           result == SendBenchmarkResult(response)
           counted == [task EXCEPT
                         !.responses = Append(@, response),
                         !.lastResult = result,
                         !.successCount = IF result.success THEN @ + 1 ELSE @,
                         !.failCount = IF result.success THEN @ ELSE @ + 1]
           settled == {r \in inflight : r.task # t}
       IN  IF result.raised
           THEN /\ tasks' = [tasks EXCEPT ![t] =
                      [task EXCEPT !.responses = Append(@, response),
                                   !.lastResult = result, !.pc = "crashed"]]
                /\ inflight' = settled
                /\ leaves' = RemoveIsRunning(task, leaves)
           ELSE IF HasNextEntry(task.runnableEntries, task.ri, result)
           THEN LET req == Request(t, task.apiUrl,
                                   EntryAt(task.runnableEntries, task.ri + 1),
                                   task.runningNameTemplate)
                IN  /\ tasks' = [tasks EXCEPT ![t] =
                          [counted EXCEPT !.ri = task.ri + 1,
                                          !.sent = Append(@, req.body)]]
                    /\ inflight' = settled \cup {req}
                    /\ UNCHANGED leaves
           ELSE /\ tasks' = [tasks EXCEPT ![t] = [counted EXCEPT !.pc = "summary"]]
                /\ inflight' = settled
                /\ UNCHANGED leaves
    /\ UNCHANGED <<settings, activeFile, metadata, nameVars, callVars>>

\* the closing Notice of runBenchmarks
RunBenchmarksFinish(t) ==
    /\ tasks[t].pc = "summary"
    /\ tasks' = [tasks EXCEPT ![t] =
          [@ EXCEPT !.pc = "returned",
                    !.notices = Append(@,
                        IF tasks[t].failCount = 0
                        THEN Notice("all", tasks[t].successCount, 0)
                        ELSE Notice("completed", tasks[t].successCount,
                                    tasks[t].failCount))]]
    /\ UNCHANGED <<settings, leaves, activeFile, metadata, inflight, nameVars, callVars>>

\* runBenchmarks has returned: runAllEnabledBenchmarks goes to the next
\* base path, the click callback of a run button goes through its finally
\* block, every other caller is finished
Continue(t) ==
    /\ tasks[t].pc = "returned"
    /\ tasks' = [tasks EXCEPT ![t] =
          IF tasks[t].kind = "runAll" /\ tasks[t].baseIdx < Len(tasks[t].paths)
          THEN [StartCollect(@, "runAll", tasks[t].paths[tasks[t].baseIdx + 1])
                  EXCEPT !.baseIdx = tasks[t].baseIdx + 1]
          ELSE [IdleTask EXCEPT !.kind = tasks[t].kind, !.pc = "done"]]
    /\ leaves' = RemoveIsRunning(tasks[t], leaves)
    /\ UNCHANGED <<settings, activeFile, metadata, inflight, nameVars, callVars>>

\* ------------------------------------------------------------------------
\* Initial states
\* ------------------------------------------------------------------------
LoadSettingsWithoutDefaults(data) == data
\* Object.assign({}, DEFAULT_SETTINGS, data)
LoadSettings(data) ==
    [k \in DOMAIN DEFAULT_SETTINGS \cup DOMAIN data |->
        IF k \in DOMAIN data THEN data[k] ELSE DEFAULT_SETTINGS[k]]

\* the plugin after loadSettings on the persisted data
\* the settings tab has not been opened
TabClosed == [open |-> FALSE, id |-> 0, paths |-> <<>>, rows |-> <<>>]

UiIdle ==
    /\ arrayId = 0
    /\ displayed = TabClosed
    /\ saving = <<>>
    /\ edits = 0
    /\ updated = {}
    /\ lastOp = [b \in Bases |-> "none"]

Loaded(data) ==
    /\ persisted = data
    /\ settings = LoadSettings(data)
    /\ loadPc = "done"
    /\ UiIdle

NoData == [k \in {} |-> <<>>]

\* persisted data.json: the lists of enabled base files saved earlier
PersistedData ==
    {[enabledBasePaths |-> p] :
        p \in {<<>>, <<"A.base">>, <<"B.base">>, <<"A.base", "B.base">>}}

\* a leaf of type "bases" whose toolbar is rendered, before any button
Leaf(file, state) == [file |-> file, state |-> state, toolbar |-> TRUE, buttons |-> <<>>]

\* the open views of type "bases": each base file in at most one leaf
LeafConfigs(states) ==
    {<<>>}
    \cup {<<Leaf(b, st)>> : b \in Bases, st \in states}
    \cup {<<Leaf(p[1], s1), Leaf(p[2], s2)>> :
            p \in {q \in Bases \X Bases : q[1] # q[2]}, s1 \in states, s2 \in states}

InsertLink == <<"[","[","I","n","s","]","]">>
Frontmatter(runValue) == (IsRunName :> runValue) @@ (OperationName :> StrVal(InsertLink))
FrontmatterWithoutRun == (OperationName :> StrVal(InsertLink))

TrueText == <<"t","r","u","e">>

\* every note eligible; or only the second note of A.base
MainMetadatas ==
    {[f \in Files |-> Cache(Frontmatter(BoolTrue))],
     [f \in Files |-> IF f = NoteA2 THEN Cache(Frontmatter(BoolTrue))
                                    ELSE Cache(Frontmatter(StrVal(TrueText)))]}

BodyIdle ==
    /\ content = <<>>
    /\ yamlContent = <<>>
    /\ bodyPc = "off"

PropIdle ==
    /\ propName = <<>>
    /\ propValue = Undefined
    /\ allProperties = [k \in {} |-> Null]
    /\ propPc = "off"

CallIdle == BodyIdle /\ PropIdle

NameIdle ==
    /\ CallIdle
    /\ nameTemplate = <<>>
    /\ nameEntry = [filePath |-> <<>>, properties |-> [k \in {} |-> Null]]
    /\ nameResult = <<>>
    /\ namePc = "off"

\* the plugin after onload and onLayoutReady, with no command run yet
Init ==
    /\ \E data \in PersistedData : Loaded(data)
    /\ \E lv \in LeafConfigs({"loaded", "nodata"}) :
          leaves = RefreshAllRunButtons(lv, settings.enabledBasePaths)
    /\ activeFile \in {"note.md"} \cup {leaves[i].file : i \in 1..Len(leaves)}
    /\ metadata \in MainMetadatas
    /\ tasks = [t \in Tasks |-> IdleTask]
    /\ inflight = {}
    /\ NameIdle

MainResponses == {r \in Responses : r.threw \/ r.status \in {200, 500}}

Next ==
    \/ \E t \in Tasks : RunAllCommand(t)
    \/ \E t \in Tasks : RunCurrentCommand(t)
    \/ \E t \in Tasks, i \in 1..Cardinality(Bases) : RunButtonClick(t, i)
    \/ \E t \in Tasks : CollectStart(t)
    \/ \E t \in Tasks : ReadDone(t)
    \/ \E t \in Tasks : RunBenchmarksStart(t)
    \/ \E t \in Tasks, r \in MainResponses : RequestOutcome(t, r)
    \/ \E t \in Tasks : RunBenchmarksFinish(t)
    \/ \E t \in Tasks : Continue(t)

Spec == Init /\ [][Next]_vars

\* ------------------------------------------------------------------------
\* A direct call of runBenchmarks(apiUrl, entries, template, runPropertyName)
\* ------------------------------------------------------------------------
EligibleMetadata == [f \in Files |-> Cache(Frontmatter(BoolTrue))]

HostIdle ==
    /\ Loaded(NoData)
    /\ leaves = <<>>
    /\ activeFile = "note.md"
    /\ metadata = EligibleMetadata
    /\ inflight = {}

EntryFor(file, isRun) ==
    [filePath |-> file, isRun |-> isRun,
     yamlContent |-> ExtractYamlFromBody(VaultContent(file)),
     variables |-> GetPropertyValue(EligibleMetadata, file, VariablesName),
     properties |-> GetAllProperties(EligibleMetadata, file)]

EntryChoices == {EntryFor(NoteA1, TRUE), EntryFor(NoteA2, TRUE), EntryFor(NoteB1, FALSE)}
EntryLists == UNION {[1..n -> EntryChoices] : n \in 0..MaxEntries}

InitRun ==
    /\ HostIdle
    /\ NameIdle
    /\ \E list \in EntryLists :
          tasks = [t \in Tasks |->
                     IF t = 1 THEN [IdleTask EXCEPT !.kind = "direct", !.pc = "collected",
                                                    !.entries = list]
                     ELSE IdleTask]

RunResponses == {r \in Responses : r.threw \/ r.status \in {199, 200, 299, 300, 500}}

NextRun ==
    \/ \E t \in Tasks : RunBenchmarksStart(t)
    \/ \E t \in Tasks, r \in RunResponses : RequestOutcome(t, r)
    \/ \E t \in Tasks : RunBenchmarksFinish(t)
    \/ \E t \in Tasks : Continue(t)

SpecRun == InitRun /\ [][NextRun]_vars

\* ------------------------------------------------------------------------
\* A direct call of getRunnableBenchmarks(app, baseFilePath, runPropertyName)
\* ------------------------------------------------------------------------
CollectCaches == {NoFrontmatter, Cache(FrontmatterWithoutRun)}
                    \cup {Cache(Frontmatter(v)) :
                            v \in {BoolTrue, BoolFalse, StrVal(TrueText), NumOne}}

InitCollect ==
    /\ Loaded(NoData)
    /\ leaves \in LeafConfigs(LeafStates)
    /\ activeFile = "note.md"
    /\ metadata \in [Files -> CollectCaches]
    /\ inflight = {}
    /\ NameIdle
    /\ \E base \in Bases :
          tasks = [t \in Tasks |->
                     IF t = 1 THEN StartCollect(IdleTask, "collect", base) ELSE IdleTask]

NextCollect ==
    \/ \E t \in Tasks : CollectStart(t)
    \/ \E t \in Tasks : ReadDone(t)

SpecCollect == InitCollect /\ [][NextCollect]_vars

\* ------------------------------------------------------------------------
\* A direct call of generateRunningName(template, entry)
\* ------------------------------------------------------------------------
TemplateChunks ==
    {FilenamePlaceholder,
     <<"{","F","i","l","e","N","A","M","E","}">>,
     <<"{","x","}">>, <<"{","y","}">>,
     <<"{","v","a","l","u","e","O","f","}">>,
     <<"_">>, <<"{">>, <<"}">>, <<"x">>}

Templates == {Concat(cs) : cs \in UNION {[1..n -> TemplateChunks] : n \in 0..MaxChunks}}

NamePaths ==
    {<<"a","/","b","/","n","o","t","e",".","m","d">>,
     <<"f",".","m","d">>,
     <<"a",".","b","/","r","u","n","1">>,
     <<"d","/","{","x","}",".","m","d">>,
     <<"d","/","$","&",".","m","d">>}

FilenameName == <<"f","i","l","e","n","a","m","e">>
NameProperties ==
    {[k \in {} |-> Null],
     (<<"x">> :> StrVal(<<"v">>)) @@ (FilenameName :> StrVal(<<"P">>)),
     (<<"x">> :> StrVal(<<"{","y","}">>)) @@ (<<"y">> :> StrVal(<<"w">>))
        @@ (<<"F","i","l","e","N","A","M","E">> :> StrVal(<<"Q">>)),
     (<<"x">> :> Null) @@ (<<"y">> :> NumOne)}

NameEntries == [filePath : NamePaths, properties : NameProperties]

InitName ==
    /\ HostIdle
    /\ tasks = [t \in Tasks |-> IdleTask]
    /\ nameTemplate \in Templates
    /\ nameEntry \in NameEntries
    /\ nameResult = <<>>
    /\ namePc = "call"
    /\ CallIdle

GenerateName ==
    /\ namePc = "call"
    /\ nameResult' = GenerateRunningName(nameTemplate, nameEntry)
    /\ namePc' = "done"
    /\ UNCHANGED <<mainVars, nameTemplate, nameEntry, callVars>>

NextName == GenerateName

SpecName == InitName /\ [][NextName]_vars

\* ------------------------------------------------------------------------
\* The settings tab (settings-tab.ts)
\* ------------------------------------------------------------------------
pureVars == <<nameVars, bodyVars, propVars, loadPc>>

\* display(): the rows of the enabled base files and the array they close over
DisplayOf(id, paths) == [open |-> TRUE, id |-> id, paths |-> paths, rows |-> paths]

\* the user opens the settings tab: display()
OpenSettingsTab ==
    /\ Quiescent
    /\ displayed' = DisplayOf(arrayId, settings.enabledBasePaths)
    /\ displayed' # displayed
    /\ updated' = {}
    /\ UNCHANGED <<settings, leaves, activeFile, metadata, tasks, inflight,
                   pureVars, persisted, lastOp, arrayId, saving, edits>>

\* a handler that has changed a field of the settings suspends at
\* await this.plugin.saveSettings(); after: what it does when resumed
Suspend(data, after) == Append(saving, [data |-> data, after |-> after])

\* onChange of a text field up to its suspension
TextChange(field, value) ==
    /\ Quiescent
    /\ displayed.open
    /\ edits < MaxEdits
    /\ settings' = [settings EXCEPT ![field] = value]
    /\ saving' = Suspend(settings', "none")
    /\ edits' = edits + 1
    /\ updated' = {}
    /\ UNCHANGED <<leaves, activeFile, metadata, tasks, inflight, pureVars,
                   persisted, lastOp, arrayId, displayed>>

\* this.plugin.settings.apiUrl = value
ApiUrlChange(value) == TextChange("apiUrl", value)

\* this.plugin.settings.runPropertyName = value || the default
RunPropertyNameChange(value) ==
    TextChange("runPropertyName", IF value = <<>> THEN IsRunName ELSE value)

\* this.plugin.settings.variablesPropertyName = value || the default
VariablesPropertyNameChange(value) ==
    TextChange("variablesPropertyName", IF value = <<>> THEN VariablesName ELSE value)

\* this.plugin.settings.runningNameTemplate = value || the default
RunningNameTemplateChange(value) ==
    TextChange("runningNameTemplate", IF value = <<>> THEN DefaultTemplate ELSE value)

\* a task between its trigger and its end
Running(task) == task.pc \notin {"idle", "done", "crashed"}

\* click on Add up to its suspension: enabledBasePaths.push(inputValue)
\* changes the array in place, for everything that holds the same array
AddClick(inputValue) ==
    /\ Quiescent
    /\ displayed.open
    /\ edits < MaxEdits
    /\ inputValue \in Bases
    /\ ~Includes(settings.enabledBasePaths, inputValue)
    /\ settings' = [settings EXCEPT !.enabledBasePaths = Append(@, inputValue)]
    /\ tasks' = [t \in Tasks |->
          IF Running(tasks[t]) /\ tasks[t].kind = "runAll" /\ tasks[t].pathsId = arrayId
          THEN [tasks[t] EXCEPT !.paths = Append(@, inputValue)]
          ELSE tasks[t]]
    /\ displayed' = IF displayed.id = arrayId
                     THEN [displayed EXCEPT !.paths = Append(@, inputValue)]
                     ELSE displayed
    /\ saving' = Suspend(settings', "refresh")
    /\ edits' = edits + 1
    /\ updated' = {}
    /\ lastOp' = [lastOp EXCEPT ![inputValue] = "add"]
    /\ UNCHANGED <<leaves, activeFile, metadata, inflight, pureVars, persisted, arrayId>>

\* click on Remove of row r up to its suspension: enabledPaths.filter(...)
\* makes a new array out of the array the rows close over
RemoveClick(r) ==
    /\ Quiescent
    /\ displayed.open
    /\ edits < MaxEdits
    /\ r \in 1..Len(displayed.rows)
    /\ LET filePath == displayed.rows[r]
       IN  /\ settings' = [settings EXCEPT !.enabledBasePaths =
                              SelectSeq(displayed.paths, LAMBDA q : q # filePath)]
           /\ lastOp' = [lastOp EXCEPT ![filePath] = "remove"]
    /\ arrayId' = edits + 1
    /\ saving' = Suspend(settings', "refresh")
    /\ edits' = edits + 1
    /\ updated' = {}
    /\ UNCHANGED <<leaves, activeFile, metadata, tasks, inflight, pureVars,
                   persisted, displayed>>

\* saveData of handler k resolves: data.json is written; Add and Remove go
\* on with refreshRunButtons() and display()
SaveDone(k) ==
    /\ Quiescent
    /\ k \in 1..Len(saving)
    /\ persisted' = saving[k].data
    /\ saving' = SubSeq(saving, 1, k - 1) \o SubSeq(saving, k + 1, Len(saving))
    /\ IF saving[k].after = "refresh"
       THEN /\ leaves' = RefreshAllRunButtons(leaves, settings.enabledBasePaths)
            /\ tasks' = Rebind(tasks, leaves, leaves')
            /\ updated' = 1..Len(leaves)
            /\ displayed' = DisplayOf(arrayId, settings.enabledBasePaths)
       ELSE /\ updated' = {}
            /\ UNCHANGED <<leaves, tasks, displayed>>
    /\ UNCHANGED <<settings, activeFile, metadata, inflight, pureVars,
                   arrayId, edits, lastOp>>

\* ------------------------------------------------------------------------
\* Workspace events (run-button.ts, setupRunButtonHandlers)
\* ------------------------------------------------------------------------
\* layout-change: updateRunButtonOnLeaf on every leaf
LayoutChange ==
    /\ Quiescent
    /\ leaves' = RefreshAllRunButtons(leaves, settings.enabledBasePaths)
    /\ tasks' = Rebind(tasks, leaves, leaves')
    /\ updated' = 1..Len(leaves)
    /\ UNCHANGED <<settings, activeFile, metadata, inflight, pureVars,
                   persisted, lastOp, arrayId, displayed, saving, edits>>

\* the user activates leaf i; active-leaf-change: updateRunButtonOnLeaf on it
ActiveLeafChange(i) ==
    /\ Quiescent
    /\ i \in 1..Len(leaves)
    /\ activeFile' = leaves[i].file
    /\ leaves' = [leaves EXCEPT ![i] = UpdateRunButtonOnLeaf(@, settings.enabledBasePaths)]
    /\ tasks' = Rebind(tasks, leaves, leaves')
    /\ updated' = {i}
    /\ UNCHANGED <<settings, metadata, inflight, pureVars,
                   persisted, lastOp, arrayId, displayed, saving, edits>>

\* file-open: updateRunButtonOnLeaf on app.workspace.getLeaf(), the leaf
\* of the active file
FileOpen ==
    /\ Quiescent
    /\ \E i \in 1..Len(leaves) :
          /\ leaves[i].file = activeFile
          /\ leaves' = [leaves EXCEPT ![i] =
                            UpdateRunButtonOnLeaf(@, settings.enabledBasePaths)]
          /\ tasks' = Rebind(tasks, leaves, leaves')
          /\ updated' = {i}
    /\ UNCHANGED <<settings, activeFile, metadata, inflight, pureVars,
                   persisted, lastOp, arrayId, displayed, saving, edits>>

\* the host shows another base file in the view of leaf i (the run
\* button, part of the container of the view, stays)
OpenFileInLeaf(i, file) ==
    /\ Quiescent
    /\ i \in 1..Len(leaves)
    /\ file \in Bases
    /\ \A j \in 1..Len(leaves) : leaves[j].file # file
    /\ leaves' = [leaves EXCEPT ![i].file = file]
    /\ activeFile' = IF activeFile = leaves[i].file THEN file ELSE activeFile
    /\ updated' = {}
    /\ UNCHANGED <<settings, metadata, tasks, inflight, pureVars,
                   persisted, lastOp, arrayId, displayed, saving, edits>>

\* the host renders the toolbar of the view of leaf i
RenderToolbar(i) ==
    /\ Quiescent
    /\ i \in 1..Len(leaves)
    /\ ~leaves[i].toolbar
    /\ leaves' = [leaves EXCEPT ![i].toolbar = TRUE]
    /\ updated' = {}
    /\ UNCHANGED <<settings, activeFile, metadata, tasks, inflight, pureVars,
                   persisted, lastOp, arrayId, displayed, saving, edits>>

\* ------------------------------------------------------------------------
\* A direct call of extractYamlFromBody(content)
\* ------------------------------------------------------------------------
TagLine == <<"BQ","BQ","BQ","y","a","m","l","_","y","c","s","b","_","r","u","n">>
FenceLine == <<"BQ","BQ","BQ">>
DashLine == <<"-","-","-">>

\* the pieces documents are made of: frontmatter blocks (with a key, empty,
\* and with CR LF line ends), tagged code blocks (the second with blanks
\* around its text, the third with CR LF line ends), a code block with
\* another tag and a line of prose
FrontmatterChunk == DashLine \o <<"LF","k",":","1","LF">> \o DashLine \o <<"LF">>
EmptyFrontmatterChunk == DashLine \o <<"LF">> \o DashLine \o <<"LF">>
CrLfFrontmatterChunk ==
    DashLine \o <<"CR","LF","k",":","1","CR","LF">> \o DashLine \o <<"CR","LF">>
TaggedChunk ==
    TagLine \o <<"LF","a",":","LF","TAB","b",":"," ","1","LF">> \o FenceLine \o <<"LF">>
PaddedTaggedChunk ==
    TagLine \o <<"LF","TAB","c"," ","LF">> \o FenceLine \o <<"LF">>
CrLfTaggedChunk ==
    TagLine \o <<"CR","LF","d","CR","LF">> \o FenceLine \o <<"CR","LF">>
OtherCodeChunk ==
    FenceLine \o <<"y","a","m","l","LF","z","LF">> \o FenceLine \o <<"LF">>
ProseChunk == <<"p","TAB","q","LF">>

DocChunks ==
    {FrontmatterChunk, EmptyFrontmatterChunk, CrLfFrontmatterChunk,
     TaggedChunk, PaddedTaggedChunk, CrLfTaggedChunk, OtherCodeChunk, ProseChunk}

Documents == {Concat(cs) : cs \in UNION {[1..n -> DocChunks] : n \in 0..MaxDocChunks}}

InitBody ==
    /\ HostIdle
    /\ tasks = [t \in Tasks |-> IdleTask]
    /\ nameTemplate = <<>>
    /\ nameEntry = [filePath |-> <<>>, properties |-> [k \in {} |-> Null]]
    /\ nameResult = <<>>
    /\ namePc = "off"
    /\ content \in Documents
    /\ yamlContent = <<>>
    /\ bodyPc = "call"
    /\ PropIdle

ExtractYaml ==
    /\ bodyPc = "call"
    /\ yamlContent' = ExtractYamlFromBody(content)
    /\ bodyPc' = "done"
    /\ UNCHANGED <<mainVars, nameVars, content, propVars, storeVars, uiVars>>

NextBody == ExtractYaml

SpecBody == InitBody /\ [][NextBody]_vars

\* ------------------------------------------------------------------------
\* Direct calls of getPropertyValue(app, file, propertyName) and of
\* getAllProperties(app, file) on one record
\* ------------------------------------------------------------------------
LinkT == <<"[","[","T","]","]">>

\* frontmatter values: a whole link, plain text, a broken link, an unclosed
\* link, text before a link, text after a link, two links, an empty link,
\* and values that are not strings
PropValues ==
    {StrVal(LinkT),
     StrVal(<<"n"," ","l">>),
     StrVal(<<"[","[","p","]"," ","b">>),
     StrVal(<<"[","[","T">>),
     StrVal(<<"x">> \o LinkT),
     StrVal(LinkT \o <<"x">>),
     StrVal(<<"[","[","a","]","]","[","[","b","]","]">>),
     StrVal(<<"[","[","]","]">>),
     BoolTrue, NumOne, Null}

PropCaches ==
    {NoFrontmatter}
    \cup {Cache((VariablesName :> v) @@ (OperationName :> w)) :
            v \in PropValues, w \in PropValues}

PropFile == NoteA1

InitProps ==
    /\ Loaded(NoData)
    /\ leaves = <<>>
    /\ activeFile = "note.md"
    /\ \E c \in PropCaches : metadata = [f \in Files |-> c]
    /\ inflight = {}
    /\ tasks = [t \in Tasks |-> IdleTask]
    /\ nameTemplate = <<>>
    /\ nameEntry = [filePath |-> <<>>, properties |-> [k \in {} |-> Null]]
    /\ nameResult = <<>>
    /\ namePc = "off"
    /\ BodyIdle
    /\ propName \in {VariablesName, OperationName, IsRunName}
    /\ propValue = Undefined
    /\ allProperties = [k \in {} |-> Null]
    /\ propPc = "call"

GetProperty ==
    /\ propPc = "call"
    /\ propValue' = GetPropertyValue(metadata, PropFile, propName)
    /\ propPc' = "got"
    /\ UNCHANGED <<mainVars, nameVars, bodyVars, propName, allProperties,
                   storeVars, uiVars>>

GetAll ==
    /\ propPc = "got"
    /\ allProperties' = GetAllProperties(metadata, PropFile)
    /\ propPc' = "done"
    /\ UNCHANGED <<mainVars, nameVars, bodyVars, propName, propValue,
                   storeVars, uiVars>>

NextProps == GetProperty \/ GetAll

SpecProps == InitProps /\ [][NextProps]_vars

\* ------------------------------------------------------------------------
\* loadSettings() on persisted data that has any subset of the fields
\* ------------------------------------------------------------------------
SettingsFields ==
    {"apiUrl", "enabledBasePaths", "runPropertyName", "variablesPropertyName",
     "runningNameTemplate"}

OtherUrl == "http://h:1/run"
GoName == <<"g","o">>
VarsName == <<"v","a","r","s">>

\* values a saved settings object can hold for a field
SavedValues(field) ==
    CASE field = "apiUrl" -> {"", OtherUrl}
      [] field = "enabledBasePaths" -> {<<>>, <<"A.base">>}
      [] field = "runPropertyName" -> {GoName}
      [] field = "variablesPropertyName" -> {VarsName}
      [] OTHER -> {FilenamePlaceholder}

\* a field that data.json has, with one of its values, or has not
SavedField(field) == {NoData} \cup {field :> v : v \in SavedValues(field)}

\* data.json with any subset of the fields
PartialData ==
    {a @@ b @@ c @@ d @@ e :
        a \in SavedField("apiUrl"), b \in SavedField("enabledBasePaths"),
        c \in SavedField("runPropertyName"), d \in SavedField("variablesPropertyName"),
        e \in SavedField("runningNameTemplate")}

InitLoad ==
    /\ persisted \in PartialData
    /\ settings = NoData
    /\ loadPc = "call"
    /\ UiIdle
    /\ leaves = <<>>
    /\ activeFile = "note.md"
    /\ metadata = EligibleMetadata
    /\ inflight = {}
    /\ tasks = [t \in Tasks |-> IdleTask]
    /\ nameTemplate = <<>>
    /\ nameEntry = [filePath |-> <<>>, properties |-> [k \in {} |-> Null]]
    /\ nameResult = <<>>
    /\ namePc = "off"
    /\ BodyIdle
    /\ PropIdle

LoadSettingsCall ==
    /\ loadPc = "call"
    /\ settings' = LoadSettings(persisted)
    /\ loadPc' = "done"
    /\ UNCHANGED <<leaves, activeFile, metadata, tasks, inflight, nameVars,
                   bodyVars, propVars, persisted, uiVars>>

NextLoad == LoadSettingsCall

SpecLoad == InitLoad /\ [][NextLoad]_vars

\* ------------------------------------------------------------------------
\* The run buttons under workspace events and edits of the enabled list
\* ------------------------------------------------------------------------
\* views whose toolbar is rendered or not yet
WithToolbars(lv, toolbars) == [i \in 1..Len(lv) |-> [lv[i] EXCEPT !.toolbar = toolbars[i]]]

InitButtons ==
    /\ \E data \in PersistedData : Loaded(data)
    /\ \E lv \in LeafConfigs({"loaded"}) : \E toolbars \in [1..Len(lv) -> BOOLEAN] :
          leaves = RefreshAllRunButtons(WithToolbars(lv, toolbars),
                                        settings.enabledBasePaths)
    /\ activeFile \in {"note.md"} \cup {leaves[i].file : i \in 1..Len(leaves)}
    /\ metadata = EligibleMetadata
    /\ tasks = [t \in Tasks |-> IdleTask]
    /\ inflight = {}
    /\ NameIdle

NextButtons ==
    \/ OpenSettingsTab
    \/ \E b \in Bases : AddClick(b)
    \/ \E r \in 1..Cardinality(Bases) : RemoveClick(r)
    \/ \E k \in 1..MaxEdits : SaveDone(k)
    \/ LayoutChange
    \/ \E i \in 1..Cardinality(Bases) : ActiveLeafChange(i)
    \/ FileOpen
    \/ \E i \in 1..Cardinality(Bases), file \in Bases : OpenFileInLeaf(i, file)
    \/ \E i \in 1..Cardinality(Bases) : RenderToolbar(i)

SpecButtons == InitButtons /\ [][NextButtons]_vars

\* ------------------------------------------------------------------------
\* Run-all runs while the settings are edited
\* ------------------------------------------------------------------------
InitEdit ==
    /\ \E data \in PersistedData : Loaded(data)
    /\ leaves = RefreshAllRunButtons(<<Leaf("A.base", "loaded"), Leaf("B.base", "loaded")>>,
                                     settings.enabledBasePaths)
    /\ activeFile = "note.md"
    /\ metadata = EligibleMetadata
    /\ tasks = [t \in Tasks |-> IdleTask]
    /\ inflight = {}
    /\ NameIdle

EditResponses == {r \in Responses : ~r.threw /\ r.status = 200}

\* one run-all run
EditTasks == {1}

NextEdit ==
    \/ \E t \in EditTasks : RunAllCommand(t)
    \/ \E t \in EditTasks : CollectStart(t)
    \/ \E t \in EditTasks : ReadDone(t)
    \/ \E t \in EditTasks : RunBenchmarksStart(t)
    \/ \E t \in EditTasks, r \in EditResponses : RequestOutcome(t, r)
    \/ \E t \in EditTasks : RunBenchmarksFinish(t)
    \/ \E t \in EditTasks : Continue(t)
    \/ OpenSettingsTab
    \/ \E value \in {"", OtherUrl} : ApiUrlChange(value)
    \/ \E value \in {<<>>, GoName} : RunPropertyNameChange(value)
    \/ \E value \in {<<>>, FilenamePlaceholder} : RunningNameTemplateChange(value)
    \/ \E b \in Bases : AddClick(b)
    \/ \E r \in 1..Cardinality(Bases) : RemoveClick(r)
    \/ \E k \in 1..MaxEdits : SaveDone(k)

SpecEdit == InitEdit /\ [][NextEdit]_vars

\* ------------------------------------------------------------------------
\* The run-current command while the active file and the enabled list change
\* ------------------------------------------------------------------------
InitCurrent ==
    /\ \E data \in PersistedData : Loaded(data)
    /\ leaves = RefreshAllRunButtons(<<Leaf("A.base", "loaded"), Leaf("B.base", "loaded")>>,
                                     settings.enabledBasePaths)
    /\ activeFile \in {"note.md", "A.base", "B.base"}
    /\ metadata = EligibleMetadata
    /\ tasks = [t \in Tasks |-> IdleTask]
    /\ inflight = {}
    /\ NameIdle

NextCurrent ==
    \/ \E t \in EditTasks : RunCurrentCommand(t)
    \/ \E t \in EditTasks : CollectStart(t)
    \/ \E t \in EditTasks : ReadDone(t)
    \/ \E t \in EditTasks : RunBenchmarksStart(t)
    \/ \E t \in EditTasks, r \in EditResponses : RequestOutcome(t, r)
    \/ \E t \in EditTasks : RunBenchmarksFinish(t)
    \/ \E t \in EditTasks : Continue(t)
    \/ OpenSettingsTab
    \/ \E b \in Bases : AddClick(b)
    \/ \E r \in 1..Cardinality(Bases) : RemoveClick(r)
    \/ \E k \in 1..MaxEdits : SaveDone(k)
    \/ \E i \in 1..Cardinality(Bases) : ActiveLeafChange(i)

SpecCurrent == InitCurrent /\ [][NextCurrent]_vars

\* ------------------------------------------------------------------------
\* The collector while the notes of the base are edited
\* ------------------------------------------------------------------------
\* the metadata cache of the host re-indexes a note that was edited: from
\* then on app.metadataCache.getFileCache(file) returns the new cache
MetadataChange(file, cache) ==
    /\ Quiescent
    /\ metadata[file] # cache
    /\ metadata' = [metadata EXCEPT ![file] = cache]
    /\ UNCHANGED <<settings, leaves, activeFile, tasks, inflight, nameVars, callVars>>

SnapshotCaches ==
    {NoFrontmatter, Cache(Frontmatter(BoolTrue)), Cache(Frontmatter(BoolFalse))}

InitSnapshot ==
    /\ Loaded(NoData)
    /\ leaves = <<Leaf("A.base", "loaded")>>
    /\ activeFile = "A.base"
    /\ metadata \in [Files -> SnapshotCaches]
    /\ inflight = {}
    /\ NameIdle
    /\ tasks = [t \in Tasks |->
                  IF t = 1 THEN StartCollect(IdleTask, "collect", "A.base") ELSE IdleTask]

NextSnapshot ==
    \/ \E t \in Tasks : CollectStart(t)
    \/ \E t \in Tasks : ReadDone(t)
    \/ \E file \in RecordsOf("A.base"), cache \in SnapshotCaches : MetadataChange(file, cache)

SpecSnapshot == InitSnapshot /\ [][NextSnapshot]_vars

\* ------------------------------------------------------------------------
\* The Add and Remove buttons of the settings tab
\* ------------------------------------------------------------------------
NextTab ==
    \/ OpenSettingsTab
    \/ \E b \in Bases : AddClick(b)
    \/ \E r \in 1..Cardinality(Bases) : RemoveClick(r)
    \/ \E k \in 1..MaxEdits : SaveDone(k)

SpecTab == InitEdit /\ [][NextTab]_vars

\* ------------------------------------------------------------------------
\* Clicks on the run buttons, also while a run is in progress
\* ------------------------------------------------------------------------
\* app.vault.read(file) rejects (the note is gone): getBenchmarkEntries has
\* no catch, the rejection leaves getRunnableBenchmarks and passes the
\* finally block of the click callback
ReadFail(t) ==
    /\ Quiescent
    /\ tasks[t].pc = "reading"
    /\ tasks' = [tasks EXCEPT ![t].pc = "crashed"]
    /\ leaves' = RemoveIsRunning(tasks[t], leaves)
    /\ UNCHANGED <<settings, activeFile, metadata, inflight, nameVars, callVars>>

InitMarker ==
    /\ Loaded([enabledBasePaths |-> <<"A.base", "B.base">>])
    /\ leaves = RefreshAllRunButtons(<<Leaf("A.base", "loaded"), Leaf("B.base", "loaded")>>,
                                     settings.enabledBasePaths)
    /\ activeFile = "A.base"
    /\ metadata = EligibleMetadata
    /\ tasks = [t \in Tasks |-> IdleTask]
    /\ inflight = {}
    /\ NameIdle

NextMarker ==
    \/ \E t \in Tasks, i \in 1..Cardinality(Bases) : RunButtonClick(t, i)
    \/ \E t \in Tasks : CollectStart(t)
    \/ \E t \in Tasks : ReadDone(t)
    \/ \E t \in Tasks : ReadFail(t)
    \/ \E t \in Tasks : RunBenchmarksStart(t)
    \/ \E t \in Tasks, r \in EditResponses : RequestOutcome(t, r)
    \/ \E t \in Tasks : RunBenchmarksFinish(t)
    \/ \E t \in Tasks : Continue(t)
    \/ OpenSettingsTab
    \/ \E r \in 1..Cardinality(Bases) : RemoveClick(r)
    \/ \E k \in 1..MaxEdits : SaveDone(k)

SpecMarker == InitMarker /\ [][NextMarker]_vars

\* ------------------------------------------------------------------------
\* Runs under a configured variables property name
\* ------------------------------------------------------------------------
XText == <<"x">>
YText == <<"y">>

\* notes that hold the default variables field, the field of the other
\* name, or both with different values
VariablesFrontmatters ==
    {Frontmatter(BoolTrue) @@ (VariablesName :> StrVal(XText)),
     Frontmatter(BoolTrue) @@ (VarsName :> StrVal(YText)),
     Frontmatter(BoolTrue) @@ (VariablesName :> StrVal(XText)) @@ (VarsName :> StrVal(YText))}

InitVariables ==
    /\ \E data \in {[enabledBasePaths |-> <<"A.base">>] @@ d :
                        d \in SavedField("variablesPropertyName")} : Loaded(data)
    /\ leaves = RefreshAllRunButtons(<<Leaf("A.base", "loaded")>>, settings.enabledBasePaths)
    /\ activeFile = "A.base"
    /\ \E fm \in VariablesFrontmatters :
          metadata = [f \in Files |-> IF f = NoteA1 THEN Cache(fm)
                                      ELSE Cache(FrontmatterWithoutRun)]
    /\ tasks = [t \in Tasks |-> IdleTask]
    /\ inflight = {}
    /\ NameIdle

NextVariables ==
    \/ \E t \in EditTasks : RunAllCommand(t)
    \/ \E t \in EditTasks : RunCurrentCommand(t)
    \/ \E t \in EditTasks, i \in 1..Cardinality(Bases) : RunButtonClick(t, i)
    \/ \E t \in EditTasks : CollectStart(t)
    \/ \E t \in EditTasks : ReadDone(t)
    \/ \E t \in EditTasks : RunBenchmarksStart(t)
    \/ \E t \in EditTasks, r \in EditResponses : RequestOutcome(t, r)
    \/ \E t \in EditTasks : RunBenchmarksFinish(t)
    \/ \E t \in EditTasks : Continue(t)
    \/ OpenSettingsTab
    \/ \E value \in {<<>>, VarsName} : VariablesPropertyNameChange(value)
    \/ \E k \in 1..MaxEdits : SaveDone(k)

SpecVariables == InitVariables /\ [][NextVariables]_vars

\* ------------------------------------------------------------------------
\* Properties of the dispatch orchestrator
\* ------------------------------------------------------------------------
Is2xx(response) == ~response.threw /\ response.status \in 200..299

InFlightOf(t) == {r \in inflight : r.task = t}

\* the request body carries the path and the payload of the entry
SubmittedFor(body, entry) ==
    /\ body.filePath = entry.filePath
    /\ body.yamlContent = entry.yamlContent

\* the requests issued so far are those of the first runnable entries, one
\* each, in the order of the list
SentInOrder(task) ==
    /\ Len(task.sent) <= Len(task.runnableEntries)
    /\ \A i \in 1..Len(task.sent) : SubmittedFor(task.sent[i], task.runnableEntries[i])

\* C1: when the loop of runBenchmarks has ended, one request has been issued
\* for every eligible entry of the list, whatever the earlier outcomes were,
\* successCount + failCount is the number of eligible entries, successCount is
\* the number of requests the service answered with a 2xx status, and the
\* closing Notice reports these counts.
C1_EveryEntrySubmittedAndCounted ==
    \A t \in Tasks :
        LET task == tasks[t]
            n == Len(task.runnableEntries)
        IN  /\ task.pc # "crashed"
            /\ (task.pc = "summary" \/ (task.pc = "returned" /\ n > 0)) =>
                  /\ task.runnableEntries = SelectSeq(task.entries, LAMBDA e : e.isRun)
                  /\ Len(task.sent) = n
                  /\ SentInOrder(task)
                  /\ Len(task.responses) = n
                  /\ task.successCount + task.failCount = n
                  /\ task.successCount =
                        Cardinality({i \in 1..n : Is2xx(task.responses[i])})
            /\ (task.pc = "returned" /\ n > 0) =>
                  task.notices[Len(task.notices)] =
                      IF task.failCount = 0
                      THEN Notice("all", task.successCount, 0)
                      ELSE Notice("completed", task.successCount, task.failCount)

\* C1 witness: three eligible entries, the second failed, the third was
\* submitted all the same and the summary is 2 successes, 1 failure
C1_Witness ==
    \E t \in Tasks :
        /\ tasks[t].pc = "returned"
        /\ Len(tasks[t].sent) = 3
        /\ Is2xx(tasks[t].responses[1])
        /\ ~Is2xx(tasks[t].responses[2])
        /\ Is2xx(tasks[t].responses[3])
        /\ tasks[t].notices[Len(tasks[t].notices)] = Notice("completed", 2, 1)

\* C2: at most one request is in flight to the execution service.
C2_AtMostOneInFlight == Cardinality(inflight) <= 1

\* C3: the requests of one run are issued in the order of the list, and the
\* request for entry i+1 is issued only once the outcome of entry i has been
\* received and counted: a run has at most one request in flight, the one
\* for the entry after those already counted.
C3_SequentialInListOrder ==
    \A t \in Tasks :
        LET task == tasks[t]
            k == Len(task.sent)
            counted == task.successCount + task.failCount
        IN  /\ SentInOrder(task)
            /\ counted = Len(task.responses)
            /\ IF task.pc = "awaiting"
               THEN /\ k = counted + 1
                    /\ InFlightOf(t) = {[task |-> t, url |-> task.apiUrl,
                                         body |-> task.sent[k]]}
               ELSE /\ k = counted
                    /\ InFlightOf(t) = {}

\* C3 witness: the second of two different entries awaits its outcome, the
\* first has been counted
C3_Witness ==
    \E t \in Tasks :
        /\ tasks[t].pc = "awaiting"
        /\ Len(tasks[t].sent) = 2
        /\ tasks[t].sent[1] # tasks[t].sent[2]
        /\ tasks[t].successCount + tasks[t].failCount = 1

\* C4: the result of sendBenchmarkRequest has success = true exactly when
\* requestUrl resolved with a status in [200, 300); every other status and a
\* rejected request give success = false with a diagnostic message; no error
\* leaves sendBenchmarkRequest or runBenchmarks.
C4_SuccessIffStatus2xx ==
    \A t \in Tasks :
        LET task == tasks[t]
        IN  /\ task.pc # "crashed"
            /\ task.responses # <<>> =>
                  LET response == task.responses[Len(task.responses)]
                  IN  /\ ~task.lastResult.raised
                      /\ task.lastResult.success <=> Is2xx(response)
                      /\ task.lastResult.message =
                            IF response.threw THEN "Request failed"
                            ELSE IF Is2xx(response) THEN "submitted successfully"
                            ELSE "Server error"

\* C4 witness: status 299 counted as a success, then status 300 as a
\* failure, then a rejected request as a failure
C4_Witness ==
    \E t \in Tasks :
        /\ Len(tasks[t].responses) = 3
        /\ tasks[t].responses[1] = [threw |-> FALSE, status |-> 299]
        /\ tasks[t].responses[2] = [threw |-> FALSE, status |-> 300]
        /\ tasks[t].responses[3].threw
        /\ tasks[t].successCount = 1
        /\ tasks[t].failCount = 2
        /\ tasks[t].lastResult.message = "Request failed"

\* C5: a call of runBenchmarks with no eligible entry issues no request and
\* ends with the single Notice "nothing to run"; a call with eligible entries
\* never ends with that Notice, and ends with a summary Notice.
C5_EmptyListNothingToRun ==
    \A t \in Tasks :
        LET task == tasks[t]
        IN  /\ (task.pc \in {"summary", "returned"} /\ task.runnableEntries = <<>>) =>
                  /\ task.sent = <<>>
                  /\ InFlightOf(t) = {}
                  /\ task.pc = "returned"
                  /\ task.notices = <<Notice("none", 0, 0)>>
            /\ (task.pc = "returned" /\ task.runnableEntries # <<>>) =>
                  /\ \A i \in 1..Len(task.notices) : task.notices[i].kind # "none"
                  /\ task.notices[Len(task.notices)].kind \in {"all", "completed"}

\* C5 witness: runBenchmarks has returned from a call with the empty list
C5_Witness ==
    \E t \in Tasks :
        /\ tasks[t].kind = "direct"
        /\ tasks[t].pc = "returned"
        /\ tasks[t].entries = <<>>
        /\ tasks[t].notices = <<Notice("none", 0, 0)>>

\* ------------------------------------------------------------------------
\* Properties of the entry collector
\* ------------------------------------------------------------------------
FilePathsOf(entries) == {entries[i].filePath : i \in 1..Len(entries)}

\* C6: every entry the collector holds or returns has isRun = true and was
\* pushed for a record whose eligibility property was the boolean true when
\* it was checked; a record whose property is anything else (the string
\* "true", 1, false, missing, no frontmatter) is not in the list.
C6_OnlyBooleanTrueCollected ==
    \A t \in Tasks :
        LET task == tasks[t]
        IN  /\ \A i \in 1..Len(task.entries) :
                  /\ task.entries[i].isRun
                  /\ task.checked[i] = BoolTrue
            /\ \A f \in Files :
                  GetPropertyValue(metadata, f, task.runPropertyName) # BoolTrue
                      => f \notin FilePathsOf(task.entries)
            /\ task.pc = "collected" =>
                  SelectSeq(task.entries, LAMBDA e : e.isRun) = task.entries

\* C6 witness: the collector returned an entry and dropped a record of the
\* same result set whose property is the string "true"
C6_Witness ==
    \E t \in Tasks :
        /\ tasks[t].pc = "collected"
        /\ tasks[t].entries # <<>>
        /\ \E k \in 1..Len(tasks[t].queryResult) :
              /\ tasks[t].queryResult[k] # NoFile
              /\ GetPropertyValue(metadata, tasks[t].queryResult[k],
                                  tasks[t].runPropertyName) = StrVal(TrueText)
              /\ tasks[t].queryResult[k] \notin FilePathsOf(tasks[t].entries)

HasLiveView(base) ==
    \E i \in 1..Len(leaves) : leaves[i].file = base /\ leaves[i].state = "loaded"

\* C7: every entry collected for a base file that has a live view, and every
\* request submitted for it, is a record of the result set of that base
\* file, also when a view of another base file is open.
C7_EntriesBelongToRequestedBase ==
    \A t \in Tasks :
        (tasks[t].kind # "direct" /\ HasLiveView(tasks[t].basePath)) =>
            /\ FilePathsOf(tasks[t].entries) \subseteq RecordsOf(tasks[t].basePath)
            /\ \A i \in 1..Len(tasks[t].sent) :
                  tasks[t].sent[i].filePath \in RecordsOf(tasks[t].basePath)

\* C8: when the requested base file has no live view, the collector returns
\* the empty list without an error and the dispatch issues no request.
C8_NoLiveViewNothingCollected ==
    \A t \in Tasks :
        (tasks[t].pc \in {"reading", "collected", "awaiting", "summary", "returned"}
            /\ tasks[t].kind # "direct"
            /\ ~HasLiveView(tasks[t].basePath)) =>
                /\ tasks[t].pc # "reading"
                /\ tasks[t].entries = <<>>
                /\ tasks[t].sent = <<>>
                /\ InFlightOf(t) = {}

\* ------------------------------------------------------------------------
\* Properties of the name resolver
\* ------------------------------------------------------------------------
\* the template with every {filename}, in any letter case, replaced by the
\* text itself
RECURSIVE SubstituteFilenameFrom(_, _, _)
SubstituteFilenameFrom(template, i, text) ==
    IF i > Len(template) THEN <<>>
    ELSE IF /\ i + 9 <= Len(template)
            /\ ToLower(SubSeq(template, i, i + 9)) = FilenamePlaceholder
    THEN text \o SubstituteFilenameFrom(template, i + 10, text)
    ELSE <<template[i]>> \o SubstituteFilenameFrom(template, i + 1, text)

HasBrace(text) == \E i \in 1..Len(text) : text[i] \in {"{", "}"}

\* no brace of the template lies outside a {filename} placeholder
OnlyFilenamePlaceholders(template) ==
    ~HasBrace(SubstituteFilenameFrom(template, 1, <<>>))

\* C9: in a template whose only placeholders are {filename}, in any letter
\* case, the result is the template with each of them replaced by the
\* filename derived from entry.filePath, whatever entry.properties holds.
C9_FilenameIsDerivedFilename ==
    (namePc = "done" /\ OnlyFilenamePlaceholders(nameTemplate)) =>
        nameResult = SubstituteFilenameFrom(nameTemplate, 1,
                                            DeriveFileName(nameEntry.filePath))

IsPlaceholder(template) ==
    /\ Len(template) >= 3
    /\ template[1] = "{"
    /\ template[Len(template)] = "}"
    /\ ~HasBrace(SubSeq(template, 2, Len(template) - 1))

\* the text a template made of one placeholder inserts
InsertedText(template, entry) ==
    IF ToLower(template) = FilenamePlaceholder
    THEN DeriveFileName(entry.filePath)
    ELSE PropertyText(entry.properties, SubSeq(template, 2, Len(template) - 1))

\* C10: text inserted for a placeholder is not scanned for placeholders
\* again: when the template is one placeholder and the text inserted for it
\* (the derived filename or the property value) holds braces, the result is
\* that text.
C10_InsertedTextNotRescanned ==
    (/\ namePc = "done"
     /\ IsPlaceholder(nameTemplate)
     /\ HasBrace(InsertedText(nameTemplate, nameEntry))) =>
        nameResult = InsertedText(nameTemplate, nameEntry)

\* the template holds no {filename} placeholder, in any letter case
NoFilenamePlaceholder(template) == SubstituteFilenameFrom(template, 1, <<>>) = template

NoBrace(text, from, to) == \A i \in from..to : text[i] \notin {"{", "}"}

\* {a{b} : an opening brace inside a placeholder
IsNestedBraces(t) ==
    /\ Len(t) >= 5
    /\ t[1] = "{" /\ t[2] \notin {"{", "}"} /\ t[Len(t)] = "}"
    /\ \A i \in 2..(Len(t) - 1) : t[i] # "}"
    /\ \E i \in 3..(Len(t) - 2) : t[i] = "{"

\* {{a}} : doubled braces
IsDoubledBraces(t) ==
    /\ Len(t) >= 5
    /\ t[1] = "{" /\ t[2] = "{" /\ t[Len(t) - 1] = "}" /\ t[Len(t)] = "}"
    /\ NoBrace(t, 3, Len(t) - 2)

\* {} : an empty pair
IsEmptyPair(t) == t = <<"{", "}">>

\* {a : an opening brace that is never closed
IsUnclosedBrace(t) == Len(t) >= 2 /\ t[1] = "{" /\ NoBrace(t, 2, Len(t))

IsMalformedTemplate(t) ==
    /\ NoFilenamePlaceholder(t)
    /\ IsNestedBraces(t) \/ IsDoubledBraces(t) \/ IsEmptyPair(t) \/ IsUnclosedBrace(t)

\* C11: a template that is one nested or malformed brace group (an opening
\* brace inside a placeholder, doubled braces, an empty pair, an unclosed
\* brace) is returned as it is: its braces are literal text, not placeholders.
C11_MalformedBracesAreLiteral ==
    (namePc = "done" /\ IsMalformedTemplate(nameTemplate)) => nameResult = nameTemplate

\* the text the properties the entry owns give for a name
OwnPropertyText(properties, name) ==
    IF name \in DOMAIN properties /\ properties[name] # Null
    THEN StringOf(properties[name]) ELSE <<>>

\* the text with every placeholder {p}, p free of braces, replaced by the
\* text of property p; every other character is kept
RECURSIVE SubstituteProperties(_, _, _)
SubstituteProperties(text, i, properties) ==
    IF i > Len(text) THEN <<>>
    ELSE LET braces == {j \in (i+1)..Len(text) : text[j] \in {"{", "}"}}
             j == IF braces = {} THEN 0 ELSE SetMin(braces)
         IN  IF text[i] = "{" /\ j >= i + 2 /\ text[j] = "}"
             THEN OwnPropertyText(properties, SubSeq(text, i + 1, j - 1))
                  \o SubstituteProperties(text, j + 1, properties)
             ELSE <<text[i]>> \o SubstituteProperties(text, i + 1, properties)

\* every brace of the template belongs to a placeholder {p}
OnlyPlaceholders(template) ==
    ~HasBrace(SubstituteProperties(template, 1, [k \in {} |-> Null]))

\* C12: generateRunningName returns a text for every template and entry; in
\* a template without {filename} whose braces all belong to placeholders,
\* each {p} gives the text of entry.properties[p] when the entry has that
\* property and it is not null, and the empty text otherwise.
C12_PlaceholderIsPropertyOrEmpty ==
    namePc = "done" =>
        /\ nameResult \in Seq(STRING)
        /\ (NoFilenamePlaceholder(nameTemplate) /\ OnlyPlaceholders(nameTemplate)) =>
              nameResult = SubstituteProperties(nameTemplate, 1, nameEntry.properties)

\* ------------------------------------------------------------------------
\* Properties of the body parser: a document read as lines, a line ending
\* at a line feed, with or without a carriage return before it
\* ------------------------------------------------------------------------
LineStarts(text) ==
    {i \in 1..Len(text) : i = 1 \/ text[i - 1] = "LF"}

\* the position after the line that starts at s
NextLineStart(text, s) ==
    LET feeds == {i \in s..Len(text) : text[i] = "LF"}
    IN  IF feeds = {} THEN Len(text) + 1 ELSE SetMin(feeds) + 1

\* the line that starts at s, without its line end
LineAt(text, s) ==
    LET e == NextLineStart(text, s) - 1
        last == IF e >= s /\ text[e] = "LF" THEN e - 1 ELSE e
    IN  IF last >= s /\ text[last] = "CR" THEN SubSeq(text, s, last - 1)
        ELSE SubSeq(text, s, last)

\* the closing lines of the frontmatter block a document begins with: lines
\* of three dashes, ended by a line break, after a first line of three dashes
FrontmatterEnds(text) ==
    IF text # <<>> /\ LineAt(text, 1) = DashLine
    THEN {c \in LineStarts(text) :
            c > 1 /\ LineAt(text, c) = DashLine /\ NextLineStart(text, c) - 1 >= c
                  /\ text[NextLineStart(text, c) - 1] = "LF"}
    ELSE {}

BeginsWithFrontmatter(text) == FrontmatterEnds(text) # {}

\* the text after the leading frontmatter block
BodyOf(text) ==
    IF BeginsWithFrontmatter(text)
    THEN SubSeq(text, NextLineStart(text, SetMin(FrontmatterEnds(text))), Len(text))
    ELSE text

\* fenced blocks tagged yaml_ycsb_run: an opening line and the next fence line
TaggedOpens(body) ==
    {s \in LineStarts(body) :
        /\ LineAt(body, s) = TagLine
        /\ \E c \in LineStarts(body) : c > s /\ LineAt(body, c) = FenceLine}

\* the inner text of the first of them
FirstTaggedInner(body) ==
    LET s == SetMin(TaggedOpens(body))
        c == SetMin({c \in LineStarts(body) : c > s /\ LineAt(body, c) = FenceLine})
    IN  SubSeq(body, NextLineStart(body, s), c - 1)

HasTab(text) == \E i \in 1..Len(text) : text[i] = "TAB"

\* C13: when the body of the document holds fenced blocks tagged
\* yaml_ycsb_run, the payload is the inner text of the first of them, trimmed,
\* with every tab replaced by two spaces; no payload holds a tab.
C13_FirstTaggedBlockTrimmedNoTabs ==
    bodyPc = "done" =>
        /\ ~HasTab(yamlContent)
        /\ TaggedOpens(BodyOf(content)) # {} =>
              yamlContent = TabsToSpaces(Trim(FirstTaggedInner(BodyOf(content))))

\* C14: the payload of a document that begins with a frontmatter block is
\* the payload of the text after that block; a document that is a
\* frontmatter block and nothing else, and the empty document, give the
\* empty payload.
C14_FrontmatterNotInPayload ==
    bodyPc = "done" =>
        /\ BeginsWithFrontmatter(content) => yamlContent = YamlOfBody(BodyOf(content))
        /\ (BeginsWithFrontmatter(content) /\ BodyOf(content) = <<>>) => yamlContent = <<>>
        /\ content = <<>> => yamlContent = <<>>

\* ------------------------------------------------------------------------
\* Properties of the property accessor
\* ------------------------------------------------------------------------
\* the value is a text that is one wrapped reference and nothing else: [[,
\* an inner text without brackets, ]]
IsWrappedReference(value) ==
    /\ value.t = "string"
    /\ Len(value.s) >= 5
    /\ SubSeq(value.s, 1, 2) = <<"[", "[">>
    /\ SubSeq(value.s, Len(value.s) - 1, Len(value.s)) = <<"]", "]">>
    /\ \A i \in 3..(Len(value.s) - 2) : value.s[i] \notin {"[", "]", "LF"}

\* the normalized form of a value
Normalized(value) ==
    IF IsWrappedReference(value)
    THEN StrVal(SubSeq(value.s, 3, Len(value.s) - 2))
    ELSE value

\* C15: getAllProperties returns, for every field of the frontmatter, the
\* inner text when the value is one wrapped reference and nothing else, and
\* the value itself in every other case; a record without frontmatter gives
\* the empty mapping.
C15_OnlyWholeReferenceUnwrapped ==
    propPc = "done" =>
        IF metadata[PropFile].has
        THEN /\ DOMAIN allProperties = DOMAIN metadata[PropFile].frontmatter
             /\ \A k \in DOMAIN allProperties :
                   allProperties[k] = Normalized(metadata[PropFile].frontmatter[k])
        ELSE allProperties = [k \in {} |-> Null]

\* C18: for a field the record has, getPropertyValue returns the value
\* getAllProperties holds for that field, a whole wrapped reference
\* unwrapped by both.
C18_AccessorsNormalizeAlike ==
    (propPc = "done" /\ propName \in DOMAIN allProperties) =>
        propValue = allProperties[propName]

\* ------------------------------------------------------------------------
\* Properties of the settings
\* ------------------------------------------------------------------------
\* the defaults as documented
DocumentedDefaults ==
    [apiUrl |-> "http://localhost:5000/api/ycsb",
     enabledBasePaths |-> <<>>,
     runPropertyName |-> <<"i","s","_","r","u","n">>,
     variablesPropertyName |-> <<"[",">","]"," ","v","a","r","i","a","b","l","e","s">>,
     runningNameTemplate |->
        <<"{","O","p","e","r","a","t","i","o","n","}","_","{","f","i","l","e","n","a","m","e","}">>]

\* C16: after loadSettings every one of the five settings fields has a
\* value: the persisted value when data.json has the field, the documented
\* default when it has not.
C16_LoadAppliesDefaults ==
    loadPc = "done" =>
        /\ SettingsFields \subseteq DOMAIN settings
        /\ \A f \in SettingsFields :
              settings[f] = IF f \in DOMAIN persisted THEN persisted[f]
                            ELSE DocumentedDefaults[f]

\* C16 witness: data.json holds an empty apiUrl and a run property name and
\* nothing else; after the load the two are kept and the three other fields
\* have their defaults
C16_Witness ==
    /\ loadPc = "done"
    /\ persisted = [apiUrl |-> "", runPropertyName |-> GoName]
    /\ settings.apiUrl = ""
    /\ settings.runPropertyName = GoName
    /\ settings.enabledBasePaths = <<>>
    /\ settings.variablesPropertyName = DocumentedDefaults.variablesPropertyName
    /\ settings.runningNameTemplate = DocumentedDefaults.runningNameTemplate

\* ------------------------------------------------------------------------
\* Properties of the commands
\* ------------------------------------------------------------------------
\* the path is in the list of enabled base files
IsEnabledBase(path) ==
    \E i \in 1..Len(settings.enabledBasePaths) : settings.enabledBasePaths[i] = path

\* C17: a run of the run-current command starts only in a state where the
\* active document is a .base file that is in enabledBasePaths, and it then
\* collects for that file; in every other state no such run starts, so
\* nothing is collected and nothing sent.
C17_RunCurrentOnlyOnEnabledBase ==
    [][\A t \in Tasks :
          (tasks[t].kind # "runCurrent" /\ tasks'[t].kind = "runCurrent") =>
              /\ activeFile \in {"A.base", "B.base"}
              /\ IsEnabledBase(activeFile)
              /\ tasks'[t].pc = "collect"
              /\ tasks'[t].basePath = activeFile]_vars

\* C17 witness: after an edit of the enabled list, a run-current run on the
\* enabled active base file awaits the answer to a request
C17_Witness ==
    \E t \in Tasks :
        /\ edits >= 1
        /\ tasks[t].kind = "runCurrent"
        /\ tasks[t].pc = "awaiting"
        /\ tasks[t].basePath = activeFile
        /\ IsEnabledBase(activeFile)

\* ------------------------------------------------------------------------
\* Properties of the run buttons
\* ------------------------------------------------------------------------
\* C19: no view ever holds more than one run button, and a view with a
\* toolbar on which updateRunButtonOnLeaf has just run holds a run button
\* exactly when the base file it shows is in enabledBasePaths.
C19_RunButtonStateMachine ==
    /\ \A i \in 1..Len(leaves) : Len(leaves[i].buttons) <= 1
    /\ \A i \in updated :
          leaves[i].toolbar =>
              (leaves[i].buttons # <<>> <=> IsEnabledBase(leaves[i].file))

\* C19 witness: after an edit of the enabled list, an update has run on two
\* views with toolbars: the one of the enabled base file holds one button,
\* the one of the other base file holds none
C19_Witness ==
    /\ edits >= 1
    /\ \E i \in updated, j \in updated :
          /\ leaves[i].toolbar /\ leaves[j].toolbar
          /\ IsEnabledBase(leaves[i].file) /\ Len(leaves[i].buttons) = 1
          /\ ~IsEnabledBase(leaves[j].file) /\ leaves[j].buttons = <<>>

\* ------------------------------------------------------------------------
\* Properties of a run under edits of the settings
\* ------------------------------------------------------------------------
\* C20: a run-all run works on the settings of the moment it was triggered:
\* the list of base files it walks is the list enabled at the trigger, the
\* eligibility property of every collection pass and the endpoint and the
\* name template of every dispatch are those of the trigger.
C20_RunAllUsesSettingsAtTrigger ==
    \A t \in Tasks :
        LET task == tasks[t]
        IN  (task.kind = "runAll" /\ task.pc \notin {"idle", "done", "crashed"}) =>
                /\ task.paths = task.atTrigger.enabledBasePaths
                /\ task.pc \in {"collect", "reading", "collected"} =>
                      task.runPropertyName = task.atTrigger.runPropertyName
                /\ task.pc \in {"awaiting", "summary", "returned"} =>
                      /\ task.apiUrl = task.atTrigger.apiUrl
                      /\ task.runningNameTemplate = task.atTrigger.runningNameTemplate

\* ------------------------------------------------------------------------
\* Properties of the collector while the notes are edited
\* ------------------------------------------------------------------------
\* the eligibility property as the snapshot of an entry has it
SnapshotIsRun(entry, runPropertyName) ==
    /\ runPropertyName \in DOMAIN entry.properties
    /\ entry.properties[runPropertyName] = BoolTrue

\* C21: every entry the collector has pushed or returned has a properties
\* snapshot in which the eligibility property is exactly boolean true, so
\* that isRun and the snapshot agree, also when the metadata of the record
\* changes while the collector is suspended reading the document body
C21_SnapshotAgreesWithIsRun ==
    \A t \in Tasks : \A k \in 1..Len(tasks[t].entries) :
        LET entry == tasks[t].entries[k]
        IN  entry.isRun = SnapshotIsRun(entry, tasks[t].runPropertyName)

\* ------------------------------------------------------------------------
\* Properties of the settings tab
\* ------------------------------------------------------------------------
\* C22: whatever the interleaving of the Add and Remove click handlers,
\* once every handler has completed, a base file whose last operation was
\* Remove is not in enabledBasePaths: a Remove of another path clicked
\* before the display is refreshed does not bring a removed path back
C22_RemovedPathStaysRemoved ==
    saving = <<>> =>
        \A b \in Bases : lastOp[b] = "remove" => ~IsEnabledBase(b)

\* ------------------------------------------------------------------------
\* Properties of the is-running marker
\* ------------------------------------------------------------------------
\* the runs in progress that were started from button b of leaf i
RunsStartedFrom(i, b) ==
    {t \in Tasks : /\ tasks[t].kind = "button"
                   /\ tasks[t].pc \notin {"idle", "done", "crashed"}
                   /\ tasks[t].buttonLeaf = i
                   /\ tasks[t].buttonPos = b}

\* C23: a run button carries the is-running marker exactly while a run
\* started from it is in progress: the click sets it, the end of the run
\* (also by an exception) removes it, and it stays while another run
\* started from the same button is still in progress
C23_MarkerWhileRunInProgress ==
    \A i \in 1..Len(leaves) : \A b \in 1..Len(leaves[i].buttons) :
        leaves[i].buttons[b].isRunning <=> RunsStartedFrom(i, b) # {}

\* ------------------------------------------------------------------------
\* Properties of the variables of an entry
\* ------------------------------------------------------------------------
\* the field of the record of that name; absent: undefined
RecordField(file, name) ==
    IF metadata[file].has /\ name \in DOMAIN metadata[file].frontmatter
    THEN metadata[file].frontmatter[name]
    ELSE Undefined

\* C24: the variables of every collected entry are the field of the record
\* named by the variablesPropertyName setting in force when the run was
\* started by a command or by a run button (absent when the record has no
\* such field), whatever the value of the setting
C24_VariablesReadFromConfiguredField ==
    \A t \in Tasks : \A k \in 1..Len(tasks[t].entries) :
        LET entry == tasks[t].entries[k]
        IN  tasks[t].kind \in {"runAll", "runCurrent", "button"} =>
                entry.variables =
                    RecordField(entry.filePath, tasks[t].atTrigger.variablesPropertyName)

====
